---- MODULE Spec2Model ----
(***************************************************************************)
(* Model of the co2-monitor report decoding and reading assembly:          *)
(*   src/src/lib.rs     MonitorReadingParts (set_op_val, to_reading, new)  *)
(*   src/src/lib.rs     Co2Monitor::poll                                   *)
(*   src/src/device.rs  Co2MonitorCommunication::read_to_part              *)
(*   src/src/bin/cli_logger.rs  main                                       *)
(* Spec observes single calls, SpecSet direct calls of set_op_val, SpecRun *)
(* whole runs of read_to_part, SpecCli the CLI logger, SpecLoops poll      *)
(* beside a loop on read_to_part.                                          *)
(* Indices of the 8-byte report are 0-based in the source and 1-based      *)
(* here: read_buffer[i] is buf[i + 1].                                     *)
(* An f32 temperature is represented by the integer n with value n / 2^15. *)
(***************************************************************************)
EXTENDS Integers, Sequences, FiniteSets, TLC

\* ------------------------------------------------------------------ bounds
\* Number of read_to_part calls in a run of SpecRun.
MaxCalls == 4

\* ------------------------------------------------------- program constants
OPCODE_TEMPERATURE == 66
OPCODE_CO2_VALUE == 80
OPCODE_CO2_SANITY_CHECK == 110
MAGIC_OFFSET_THAT_NEEDS_BETTER_ESTIMATE == 12811
SPEC_MAX_CO2_THRESHOLD == 3000
TERMINATOR == 13
REPORT_LEN == 8
U16 == 65536
\* 273.15 as the nearest f32, in units of 2^-15: 273.149993896484375
KELVIN_OFFSET_F32 == 8950579

\* ------------------------------------------------------------ Option<T>
None == <<>>
Some(v) == <<v>>
IsSome(o) == o /= None
Unwrap(o) == o[1]

\* ------------------------------------------------------------ f32 helpers
Abs(n) == IF n < 0 THEN 0 - n ELSE n

\* Spacing of f32 values around n / 2^15, in units of 2^-15 (24-bit mantissa).
Ulp(n) ==
  IF Abs(n) < 16777216 THEN 1
  ELSE IF Abs(n) < 33554432 THEN 2
  ELSE IF Abs(n) < 67108864 THEN 4
  ELSE 8

\* Round to nearest f32, ties to even.
RoundF32(n) ==
  LET a == Abs(n)
      u == Ulp(n)
      q == a \div u
      r == a % u
      m == IF 2 * r > u \/ (2 * r = u /\ q % 2 = 1) THEN q + 1 ELSE q
  IN  (IF n < 0 THEN 0 - 1 ELSE 1) * m * u

\* A mutant of TemperatureInC: the offset is 273 instead of 273.15.
TemperatureInC_Offset273(val) == RoundF32(val * 2048 - 273 * 32768)

\* (val as f32) / 16.0 - 273.15
TemperatureInC(val) == RoundF32(val * 2048 - KELVIN_OFFSET_F32)

\* ------------------------------------------------- MonitorReadingParts
new ==
  [temperature |-> None, co2_value |-> None, co2_sanity_check |-> None]

KnownOps == {OPCODE_TEMPERATURE, OPCODE_CO2_VALUE, OPCODE_CO2_SANITY_CHECK}

\* A mutant of set_op_val: the default arm stores the value as CO2.
set_op_val_DefaultStores(self, op, val, overflow_checks) ==
  IF op = OPCODE_TEMPERATURE
    THEN [self |-> [self EXCEPT !.temperature = Some(TemperatureInC(val))],
          panic |-> FALSE]
  ELSE IF op = OPCODE_CO2_SANITY_CHECK
    THEN IF val > MAGIC_OFFSET_THAT_NEEDS_BETTER_ESTIMATE /\ overflow_checks
           THEN [self |-> self, panic |-> TRUE]
           ELSE [self |-> [self EXCEPT !.co2_sanity_check =
                    Some((MAGIC_OFFSET_THAT_NEEDS_BETTER_ESTIMATE - val) % U16)],
                 panic |-> FALSE]
  ELSE [self |-> [self EXCEPT !.co2_value = Some(val)], panic |-> FALSE]

\* A mutant of set_op_val: a filled CO2 slot is not overwritten.
set_op_val_KeepFirst(self, op, val, overflow_checks) ==
  IF op = OPCODE_TEMPERATURE
    THEN [self |-> [self EXCEPT !.temperature = Some(TemperatureInC(val))],
          panic |-> FALSE]
  ELSE IF op = OPCODE_CO2_VALUE
    THEN [self |-> IF IsSome(self.co2_value) THEN self
                   ELSE [self EXCEPT !.co2_value = Some(val)],
          panic |-> FALSE]
  ELSE IF op = OPCODE_CO2_SANITY_CHECK
    THEN IF val > MAGIC_OFFSET_THAT_NEEDS_BETTER_ESTIMATE /\ overflow_checks
           THEN [self |-> self, panic |-> TRUE]
           ELSE [self |-> [self EXCEPT !.co2_sanity_check =
                    Some((MAGIC_OFFSET_THAT_NEEDS_BETTER_ESTIMATE - val) % U16)],
                 panic |-> FALSE]
  ELSE [self |-> self, panic |-> FALSE]

\* set_op_val(&mut self, op, val).  The u16 subtraction of the sanity arm
\* overflows for val > 12811: with overflow checks (debug profile) it
\* panics, without them (release profile) it wraps modulo 2^16.
set_op_val(self, op, val, overflow_checks) ==
  IF op = OPCODE_TEMPERATURE
    THEN [self |-> [self EXCEPT !.temperature = Some(TemperatureInC(val))],
          panic |-> FALSE]
  ELSE IF op = OPCODE_CO2_VALUE
    THEN [self |-> [self EXCEPT !.co2_value = Some(val)], panic |-> FALSE]
  ELSE IF op = OPCODE_CO2_SANITY_CHECK
    THEN IF val > MAGIC_OFFSET_THAT_NEEDS_BETTER_ESTIMATE /\ overflow_checks
           THEN [self |-> self, panic |-> TRUE]
           ELSE [self |-> [self EXCEPT !.co2_sanity_check =
                    Some((MAGIC_OFFSET_THAT_NEEDS_BETTER_ESTIMATE - val) % U16)],
                 panic |-> FALSE]
  ELSE [self |-> self, panic |-> FALSE]

Valid(c) == [tag |-> "Valid", ppm |-> c]
TooHigh(c) == [tag |-> "TooHigh", ppm |-> c]
MonitorReading(t, c) == [temperature |-> t, co2_value |-> c]

\* A mutant of to_reading: the raw CO2 value is not compared to the threshold.
to_reading_SanityOnly(self) ==
  IF IsSome(self.temperature) /\ IsSome(self.co2_value)
       /\ IsSome(self.co2_sanity_check)
    THEN LET t == Unwrap(self.temperature)
             c == Unwrap(self.co2_value)
             cs == Unwrap(self.co2_sanity_check)
         IN  Some(MonitorReading(t,
               IF cs > SPEC_MAX_CO2_THRESHOLD THEN TooHigh(c) ELSE Valid(c)))
    ELSE None

\* A mutant of to_reading: the sanity slot is not required.
to_reading_TwoSlots(self) ==
  IF IsSome(self.temperature) /\ IsSome(self.co2_value)
    THEN LET t == Unwrap(self.temperature)
             c == Unwrap(self.co2_value)
         IN  Some(MonitorReading(t,
               IF c > SPEC_MAX_CO2_THRESHOLD THEN TooHigh(c) ELSE Valid(c)))
    ELSE None

\* to_reading(&self): reads the three slots, never writes them.
to_reading(self) ==
  IF IsSome(self.temperature) /\ IsSome(self.co2_value)
       /\ IsSome(self.co2_sanity_check)
    THEN LET t == Unwrap(self.temperature)
             c == Unwrap(self.co2_value)
             cs == Unwrap(self.co2_sanity_check)
         IN  Some(MonitorReading(t,
               IF cs > SPEC_MAX_CO2_THRESHOLD \/ c > SPEC_MAX_CO2_THRESHOLD
                 THEN TooHigh(c) ELSE Valid(c)))
    ELSE None

\* ------------------------------------------------------------- results
Ok(v) == [kind |-> "Ok", val |-> v, err |-> ""]
Err(e) == [kind |-> "Err", val |-> None, err |-> e]
Panicked == [kind |-> "Panic", val |-> None, err |-> ""]
NoCall == [kind |-> "NoCall", val |-> None, err |-> ""]
\* The () a direct set_op_val call returns.
Unit == [kind |-> "Unit", val |-> None, err |-> ""]
\* The Option<MonitorReading> a direct to_reading call returns.
Opt(v) == [kind |-> "Option", val |-> v, err |-> ""]

\* ------------------------------------------------------------ the report
\* A mutant of Checksum: the sum is compared without the & 0xff reduction.
Checksum_NoMask(buf) == buf[1] + buf[2] + buf[3]

\* ((b0 as u16 + b1 as u16 + b2 as u16) & 0xff) as u8
Checksum(buf) == (buf[1] + buf[2] + buf[3]) % 256

\* ((b1 as u16) << 8) | b2 as u16
Value(buf) == ((buf[2] * 256) % U16) + buf[3]

\* A mutant of read_to_part: the value is stored before the frame is checked.
read_to_part_StoreFirst(part, rd, overflow_checks) ==
  IF rd.kind = "Ok" /\ rd.len = REPORT_LEN
    THEN LET s == set_op_val(part, rd.buf[1], Value(rd.buf), overflow_checks)
         IN  IF rd.buf[5] /= TERMINATOR
               THEN [part |-> s.self, ret |-> Err("MissingTerminatorByte"),
                     applied |-> None]
             ELSE IF Checksum(rd.buf) /= rd.buf[4]
               THEN [part |-> s.self, ret |-> Err("ChecksumInvalid"),
                     applied |-> None]
             ELSE IF s.panic
               THEN [part |-> part, ret |-> Panicked,
                     applied |-> Some(<<rd.buf[1], Value(rd.buf)>>)]
             ELSE [part |-> s.self, ret |-> Ok(to_reading(s.self)),
                   applied |-> Some(<<rd.buf[1], Value(rd.buf)>>)]
    ELSE [part |-> part, ret |-> Ok(to_reading(part)), applied |-> None]

\* A mutant of read_to_part: the checksum is not compared.
read_to_part_NoChecksum(part, rd, overflow_checks) ==
  IF rd.kind = "Ok" /\ rd.len = REPORT_LEN
    THEN IF rd.buf[5] /= TERMINATOR
           THEN [part |-> part, ret |-> Err("MissingTerminatorByte"),
                 applied |-> None]
         ELSE LET op == rd.buf[1]
                  val == Value(rd.buf)
                  s == set_op_val(part, op, val, overflow_checks)
              IN  IF s.panic
                    THEN [part |-> part, ret |-> Panicked,
                          applied |-> Some(<<op, val>>)]
                    ELSE [part |-> s.self, ret |-> Ok(to_reading(s.self)),
                          applied |-> Some(<<op, val>>)]
    ELSE [part |-> part, ret |-> Ok(to_reading(part)), applied |-> None]

\* A mutant of read_to_part: a failed transport read is returned as an error.
read_to_part_PropagateReadError(part, rd, overflow_checks) ==
  IF rd.kind = "Ok" /\ rd.len = REPORT_LEN
    THEN IF rd.buf[5] /= TERMINATOR
           THEN [part |-> part, ret |-> Err("MissingTerminatorByte"),
                 applied |-> None]
         ELSE IF Checksum(rd.buf) /= rd.buf[4]
           THEN [part |-> part, ret |-> Err("ChecksumInvalid"),
                 applied |-> None]
         ELSE LET op == rd.buf[1]
                  val == Value(rd.buf)
                  s == set_op_val(part, op, val, overflow_checks)
              IN  IF s.panic
                    THEN [part |-> part, ret |-> Panicked,
                          applied |-> Some(<<op, val>>)]
                    ELSE [part |-> s.self, ret |-> Ok(to_reading(s.self)),
                          applied |-> Some(<<op, val>>)]
    ELSE IF rd.kind = "Err"
      THEN [part |-> part, ret |-> Err("ReadFailed"), applied |-> None]
    ELSE [part |-> part, ret |-> Ok(to_reading(part)), applied |-> None]

\* A mutant of read_to_part: the checksum is compared before the terminator.
read_to_part_ChecksumFirst(part, rd, overflow_checks) ==
  IF rd.kind = "Ok" /\ rd.len = REPORT_LEN
    THEN IF Checksum(rd.buf) /= rd.buf[4]
           THEN [part |-> part, ret |-> Err("ChecksumInvalid"),
                 applied |-> None]
         ELSE IF rd.buf[5] /= TERMINATOR
           THEN [part |-> part, ret |-> Err("MissingTerminatorByte"),
                 applied |-> None]
         ELSE LET op == rd.buf[1]
                  val == Value(rd.buf)
                  s == set_op_val(part, op, val, overflow_checks)
              IN  IF s.panic
                    THEN [part |-> part, ret |-> Panicked,
                          applied |-> Some(<<op, val>>)]
                    ELSE [part |-> s.self, ret |-> Ok(to_reading(s.self)),
                          applied |-> Some(<<op, val>>)]
    ELSE [part |-> part, ret |-> Ok(to_reading(part)), applied |-> None]

\* read_to_part(&self, part): rd is what self.read(&mut read_buffer) gave.
\* applied is the (op, val) pair handed to set_op_val, if any.
read_to_part(part, rd, overflow_checks) ==
  IF rd.kind = "Ok" /\ rd.len = REPORT_LEN
    THEN IF rd.buf[5] /= TERMINATOR
           THEN [part |-> part, ret |-> Err("MissingTerminatorByte"),
                 applied |-> None]
         ELSE IF Checksum(rd.buf) /= rd.buf[4]
           THEN [part |-> part, ret |-> Err("ChecksumInvalid"),
                 applied |-> None]
         ELSE LET op == rd.buf[1]
                  val == Value(rd.buf)
                  s == set_op_val(part, op, val, overflow_checks)
              IN  IF s.panic
                    THEN [part |-> part, ret |-> Panicked,
                          applied |-> Some(<<op, val>>)]
                    ELSE [part |-> s.self, ret |-> Ok(to_reading(s.self)),
                          applied |-> Some(<<op, val>>)]
    ELSE [part |-> part, ret |-> Ok(to_reading(part)), applied |-> None]

\* ------------------------------------------------- transport results
\* Opcodes and raw values the transport delivers: one opcode outside the
\* three known ones; values on both sides of the 3000 threshold (as CO2:
\* 500 below, the others above; as sanity estimate: 9811 gives exactly 3000,
\* 500 and 3200 give more) and one above the magic offset.
Opcodes == KnownOps \cup {65}
RawValues == {500, 3200, 9811, 12812}
ShortLens == {7}

\* A report carrying (op, val); ckOff /= 0 spoils the checksum byte.
Frame(op, val, ckOff, term) ==
  <<op, val \div 256, val % 256,
    (op + (val \div 256) + (val % 256) + ckOff) % 256, term, 0, 0, 0>>

Buffers ==
  {Frame(op, val, ckOff, term) :
     op \in Opcodes, val \in RawValues, ckOff \in {0, 1}, term \in {TERMINATOR, 0}}

ShortBuffers == {Frame(op, 500, 0, TERMINATOR) : op \in Opcodes}

ReadOk(n, buf) == [kind |-> "Ok", len |-> n, buf |-> buf]
ReadErr == [kind |-> "Err", len |-> 0, buf |-> <<0, 0, 0, 0, 0, 0, 0, 0>>]
NoRead == [kind |-> "NoRead", len |-> 0, buf |-> <<0, 0, 0, 0, 0, 0, 0, 0>>]

\* What self.read(&mut read_buffer) can give.
TransportResults ==
  {ReadOk(REPORT_LEN, buf) : buf \in Buffers}
    \cup {ReadOk(n, buf) : n \in ShortLens, buf \in ShortBuffers}
    \cup {ReadErr}

\* An 8-byte report with the terminator byte and a matching checksum.
WellFormed(rd) ==
  /\ rd.kind = "Ok" /\ rd.len = REPORT_LEN
  /\ rd.buf[5] = TERMINATOR
  /\ (rd.buf[1] + rd.buf[2] + rd.buf[3]) % 256 = rd.buf[4]

UnknownReport(rd) == WellFormed(rd) /\ rd.buf[1] \notin KnownOps

\* How startLog classifies a call: the opcode of a well-formed report of a
\* known field, 0 for anything else.
Class(rd) == IF WellFormed(rd) /\ rd.buf[1] \in KnownOps THEN rd.buf[1] ELSE 0

Outcome(r) ==
  IF r.kind = "Ok" THEN (IF IsSome(r.val) THEN "Some" ELSE "None")
  ELSE r.kind

\* ------------------------------------------------------------------ state
VARIABLES
  part,             \* the caller's MonitorReadingParts
  overflow_checks,  \* build profile: TRUE = debug, FALSE = release
  panicked,         \* the thread has panicked
  last,             \* the operation called last
  ret,              \* what the last call returned
  \* observations of the last call (Spec)
  inp,              \* transport result of the last read_to_part call
  pre,              \* part before the last call
  applied,          \* (op, val) the last read_to_part call gave to set_op_val
  \* observations of the whole run (SpecRun)
  seen,             \* known opcodes accepted since the last returned Reading
  seenAtRet,        \* the same, at the return of the last read_to_part call
  startLog,         \* the class of every call since construction
  skipped,          \* the last report had an unknown opcode
  shadow,           \* an accumulator fed the same reports minus unknown opcodes
  accepted,         \* per known opcode, the raw value of its last accepted report
  \* the CLI logger (SpecCli)
  prev_reading,     \* main's prev_reading
  rows,             \* rows serialized to log.csv
  lastRow,          \* the last of them
  out,              \* what the last iteration printed: "line", "dot" or "none"
  prevBefore,       \* prev_reading before the last iteration
  somes,            \* iterations in which read_to_part returned Ok(Some(_))
  \* Co2Monitor::poll beside a loop on read_to_part (SpecLoops)
  pollParts,        \* poll's local parts
  report_values,    \* Co2Monitor.report_values
  pollPc,           \* "loop", "returned" or "panicked"
  pollRet,          \* the MonitorReading poll returned, if it has
  loopPc,           \* the same for the loop on read_to_part
  delivered,        \* known opcodes of the well-formed reports delivered
  allFailed         \* every read so far was a transport error

core == <<part, overflow_checks, panicked, last, ret>>
callObs == <<inp, pre, applied>>
runObs == <<seen, seenAtRet, startLog, skipped, shadow, accepted>>
cliObs == <<prev_reading, rows, lastRow, out, prevBefore, somes>>
loopsObs == <<pollParts, report_values, pollPc, pollRet, loopPc, delivered,
              allFailed>>
vars == <<core, callObs, runObs, cliObs, loopsObs>>

\* MonitorReading::empty()
empty == MonitorReading(0, TooHigh(0))

\* (ppm, valid) of a Co2Value, as the Row of the CSV log takes them.
as_num_and_bool(c) == <<c.ppm, c.tag = "Valid">>

Row(reading) ==
  [temperature |-> reading.temperature,
   co2_ppm |-> as_num_and_bool(reading.co2_value)[1],
   co2_is_valid |-> as_num_and_bool(reading.co2_value)[2]]

NoRow == [temperature |-> 0, co2_ppm |-> 0, co2_is_valid |-> FALSE]

Init ==
  /\ pollParts = new
  /\ report_values = <<>>
  /\ pollPc = "loop"
  /\ pollRet = None
  /\ loopPc = "loop"
  /\ delivered = {}
  /\ allFailed = TRUE
  /\ prev_reading = empty
  /\ rows = 0
  /\ lastRow = NoRow
  /\ out = "none"
  /\ prevBefore = empty
  /\ somes = 0
  /\ part = new
  /\ overflow_checks \in BOOLEAN
  /\ panicked = FALSE
  /\ last = "new"
  /\ ret = NoCall
  /\ inp = NoRead
  /\ pre = new
  /\ applied = None
  /\ seen = {}
  /\ seenAtRet = {}
  /\ startLog = <<>>
  /\ skipped = FALSE
  /\ shadow = new
  /\ accepted = [op \in KnownOps |-> None]

\* The caller's loop calls read_to_part on its accumulator; the transport
\* gives rd.
Call(rd) ==
  LET r == read_to_part(part, rd, overflow_checks)
  IN  /\ ~panicked
      /\ part' = r.part
      /\ ret' = r.ret
      /\ panicked' = (r.ret.kind = "Panic")
      /\ last' = "read_to_part"
      /\ UNCHANGED overflow_checks

\* One call of read_to_part, with the call observed.
ReadToPart ==
  \E rd \in TransportResults :
    /\ Call(rd)
    /\ inp' = rd
    /\ pre' = part
    /\ applied' = read_to_part(part, rd, overflow_checks).applied
    /\ UNCHANGED <<runObs, cliObs, loopsObs>>

\* A direct call of to_reading on the caller's accumulator.
ToReading ==
  /\ ~panicked
  /\ ret' = Opt(to_reading(part))
  /\ last' = "to_reading"
  /\ pre' = part
  /\ inp' = NoRead
  /\ applied' = None
  /\ UNCHANGED <<part, overflow_checks, panicked, runObs, cliObs, loopsObs>>

Next == ReadToPart \/ ToReading

Spec == Init /\ [][Next]_vars

\* Raw values for direct calls of set_op_val: the ends of u16, the design's
\* example 4397, the first value whose Celsius needs f32 rounding (12563),
\* and both sides of the magic offset.
SetValues == {0, 4397, 12563, 12811, 12812, 65535}

\* A direct call of set_op_val on the caller's accumulator.
SetOpVal ==
  /\ ~panicked
  /\ \E op \in Opcodes, val \in SetValues :
       LET s == set_op_val(part, op, val, overflow_checks)
       IN  /\ part' = s.self
           /\ panicked' = s.panic
           /\ ret' = IF s.panic THEN Panicked ELSE Unit
           /\ last' = "set_op_val"
           /\ pre' = part
           /\ inp' = NoRead
           /\ applied' = Some(<<op, val>>)
  /\ UNCHANGED <<overflow_checks, runObs, cliObs, loopsObs>>

NextSet == SetOpVal \/ ToReading

SpecSet == Init /\ [][NextSet]_vars

\* One call of read_to_part, with the run observed; the run is cut after
\* MaxCalls calls.
ReadToPartRun ==
  /\ Len(startLog) < MaxCalls
  /\ \E rd \in TransportResults :
       LET r == read_to_part(part, rd, overflow_checks)
           now == IF r.ret.kind = "Ok" /\ Class(rd) /= 0
                    THEN seen \cup {Class(rd)} ELSE seen
       IN  /\ Call(rd)
           /\ seenAtRet' = now
           /\ seen' = IF Outcome(r.ret) = "Some" THEN {} ELSE now
           /\ startLog' = Append(startLog, Class(rd))
           /\ skipped' = UnknownReport(rd)
           /\ shadow' = IF UnknownReport(rd) THEN shadow
                        ELSE read_to_part(shadow, rd, overflow_checks).part
           /\ accepted' = IF r.ret.kind = "Ok" /\ Class(rd) /= 0
                            THEN [accepted EXCEPT ![Class(rd)] =
                                    Some(rd.buf[2] * 256 + rd.buf[3])]
                            ELSE accepted
           /\ UNCHANGED <<callObs, cliObs, loopsObs>>

NextRun == ReadToPartRun

SpecRun == Init /\ [][NextRun]_vars

\* ------------------------------------------------------------ CLI logger
\* Rows main writes before the run of SpecCli is cut.
MaxRows == 3

\* A mutant of log_reading: the full line is printed without comparing.
log_reading_NoCompare(prev, reading) ==
  [row |-> Row(reading), out |-> "line", prev |-> reading]

\* The body of main's if let Ok(Some(reading)): the row, what is printed and
\* the new prev_reading.
log_reading(prev, reading) ==
  IF reading /= prev
    THEN [row |-> Row(reading), out |-> "line", prev |-> reading]
    ELSE [row |-> Row(reading), out |-> "dot", prev |-> prev]

\* One iteration of main's loop.
CliIter ==
  /\ rows < MaxRows
  /\ \E rd \in TransportResults :
       LET r == read_to_part(part, rd, overflow_checks).ret
       IN  /\ Call(rd)
           /\ prevBefore' = prev_reading
           /\ IF r.kind = "Ok" /\ IsSome(r.val)
                THEN LET l == log_reading(prev_reading, Unwrap(r.val))
                     IN  /\ rows' = rows + 1
                         /\ lastRow' = l.row
                         /\ out' = l.out
                         /\ prev_reading' = l.prev
                         /\ somes' = somes + 1
                ELSE /\ out' = "none"
                     /\ UNCHANGED <<prev_reading, rows, lastRow, somes>>
  /\ UNCHANGED <<callObs, runObs, loopsObs>>

NextCli == CliIter

SpecCli == Init /\ [][NextCli]_vars

\* ---------------------------------------------------- the driving loops
REPORT_VALUES_CAPACITY == 10

\* LinearMap::insert: a new key is refused when the map is full.  The map
\* is the function from its keys to their values.
insert(map, k, v) ==
  IF k \in DOMAIN map THEN [map EXCEPT ![k] = v]
  ELSE IF Cardinality(DOMAIN map) < REPORT_VALUES_CAPACITY
    THEN [x \in DOMAIN map \cup {k} |-> IF x = k THEN v ELSE map[x]]
  ELSE map

\* Raw values the transport delivers to the two loops: one on each side of
\* the magic offset.
LoopsValues == {500, 12812}

LoopsResults ==
  {rd \in TransportResults :
     rd.kind = "Err" \/ rd.buf[2] * 256 + rd.buf[3] \in LoopsValues}

\* One iteration of the loop of Co2Monitor::poll: rd is what
\* self.device.read_timeout gave.  The two checks have empty bodies.
poll_iter(parts, map, rd, checked) ==
  IF rd.kind = "Ok" /\ rd.len = REPORT_LEN
    THEN LET op == rd.buf[1]
             val == Value(rd.buf)
             s == set_op_val(parts, op, val, checked)
         IN  IF s.panic
               THEN [parts |-> parts, map |-> insert(map, op, val),
                     ret |-> None, panic |-> TRUE]
               ELSE [parts |-> s.self, map |-> insert(map, op, val),
                     ret |-> to_reading(s.self), panic |-> FALSE]
    ELSE [parts |-> parts, map |-> map, ret |-> to_reading(parts),
          panic |-> FALSE]

\* The transport gives rd to poll and to a loop that calls read_to_part on a
\* fresh accumulator until it returns Ok(Some(_)); each takes it if it is
\* still looping.
LoopsIter ==
  /\ pollPc = "loop" \/ loopPc = "loop"
  /\ \E rd \in LoopsResults :
       /\ IF loopPc = "loop"
            THEN LET r == read_to_part(part, rd, overflow_checks).ret
                 IN  /\ Call(rd)
                     /\ loopPc' = IF r.kind = "Panic" THEN "panicked"
                                  ELSE IF Outcome(r) = "Some" THEN "returned"
                                  ELSE "loop"
            ELSE UNCHANGED <<core, loopPc>>
       /\ IF pollPc = "loop"
            THEN LET p == poll_iter(pollParts, report_values, rd,
                                    overflow_checks)
                 IN  /\ pollParts' = p.parts
                     /\ report_values' = p.map
                     /\ pollRet' = p.ret
                     /\ pollPc' = IF p.panic THEN "panicked"
                                  ELSE IF IsSome(p.ret) THEN "returned"
                                  ELSE "loop"
            ELSE UNCHANGED <<pollParts, report_values, pollRet, pollPc>>
       /\ delivered' = IF Class(rd) /= 0 THEN delivered \cup {Class(rd)}
                       ELSE delivered
       /\ allFailed' = (allFailed /\ rd.kind = "Err")
  /\ UNCHANGED <<callObs, runObs, cliObs>>

NextLoops == LoopsIter

SpecLoops == Init /\ [][NextLoops]_vars

\* ------------------------------------------------------------------ claims
Filled(p) ==
  Cardinality({f \in {"temperature", "co2_value", "co2_sanity_check"} :
                 IsSome(p[f])})

EightBytes(rd) == rd.kind = "Ok" /\ rd.len = 8

\* C1: after read_to_part returns Some(Reading), all three slots of the
\* accumulator are None.
C1_ResetOnComplete ==
  (last = "read_to_part" /\ Outcome(ret) = "Some") =>
    /\ part.temperature = None
    /\ part.co2_value = None
    /\ part.co2_sanity_check = None

\* C2: every Reading read_to_part returns is preceded, since the previously
\* returned Reading (or the start), by an accepted report of each of the
\* three known fields.
C2_ReadingFromFreshFields ==
  (last = "read_to_part" /\ Outcome(ret) = "Some") => seenAtRet = {66, 80, 110}

DistinctKnown(log) ==
  /\ \A i \in 1..Len(log) : log[i] \in {66, 80, 110}
  /\ \A i, j \in 1..Len(log) : i /= j => log[i] /= log[j]

\* C3: from an empty accumulator, well-formed reports of the three known
\* opcodes, each once, in any order: the first two calls return None, the
\* third returns Some(Reading).
C3_ThirdReportCompletes ==
  (Len(startLog) >= 1 /\ DistinctKnown(startLog)) =>
    Outcome(ret) = (IF Len(startLog) = 3 THEN "Some" ELSE "None")

\* C4: 8 bytes whose byte 4 is not 0x0D: read_to_part returns
\* Err(MissingTerminatorByte) and the accumulator is as before the call.
C4_BadTerminatorRejected ==
  (last = "read_to_part" /\ EightBytes(inp) /\ inp.buf[5] /= 13) =>
    (ret.kind = "Err" /\ ret.err = "MissingTerminatorByte" /\ part = pre)

C4_Witness ==
  /\ last = "read_to_part" /\ EightBytes(inp) /\ inp.buf[5] /= 13
  /\ inp.buf[1] = 80 /\ Filled(pre) = 2 /\ pre.co2_value = None
  /\ ret.err = "MissingTerminatorByte"

\* C5: 8 bytes with terminator 0x0D and (b0 + b1 + b2) mod 256 /= b3:
\* read_to_part returns Err(ChecksumInvalid) and the accumulator is as before
\* the call.
C5_BadChecksumRejected ==
  (/\ last = "read_to_part" /\ EightBytes(inp) /\ inp.buf[5] = 13
   /\ (inp.buf[1] + inp.buf[2] + inp.buf[3]) % 256 /= inp.buf[4]) =>
    (ret.kind = "Err" /\ ret.err = "ChecksumInvalid" /\ part = pre)

C5_Witness ==
  /\ last = "read_to_part" /\ EightBytes(inp) /\ inp.buf[5] = 13
  /\ (inp.buf[1] + inp.buf[2] + inp.buf[3]) % 256 /= inp.buf[4]
  /\ inp.buf[1] = 66 /\ Filled(pre) = 2 /\ pre.temperature = None
  /\ ret.err = "ChecksumInvalid"

\* C6: 8 bytes with byte 4 = 0x0D and (b0 + b1 + b2) mod 256 = b3: no error
\* is returned and the pair given to the accumulator is (b0, b1 * 256 + b2).
C6_WellFormedDecodes ==
  (/\ last = "read_to_part" /\ EightBytes(inp) /\ inp.buf[5] = 13
   /\ (inp.buf[1] + inp.buf[2] + inp.buf[3]) % 256 = inp.buf[4]) =>
    /\ ret.kind /= "Err"
    /\ applied = Some(<<inp.buf[1], inp.buf[2] * 256 + inp.buf[3]>>)

\* The checksum sum carries out of 8 bits and the high value byte is not 0.
C6_Witness ==
  /\ last = "read_to_part" /\ EightBytes(inp) /\ inp.buf[5] = 13
  /\ inp.buf[1] + inp.buf[2] + inp.buf[3] >= 256
  /\ inp.buf[1] + inp.buf[2] + inp.buf[3] - 256 = inp.buf[4]
  /\ inp.buf[2] > 0
  /\ ret.kind = "Ok"
  /\ applied = Some(<<66, 500>>)

\* C7: the Reading made of filled slots carries TooHigh(c) iff the stored
\* sanity estimate > 3000 or the stored raw CO2 value c > 3000, else
\* Valid(c); c = 3200 gives TooHigh(3200), c = 500 with estimate <= 3000
\* gives Valid(500).
C7_Classification ==
  IsSome(ret.val) =>
    LET c == Unwrap(part.co2_value)
        cs == Unwrap(part.co2_sanity_check)
        got == Unwrap(ret.val).co2_value
    IN  /\ Filled(part) = 3
        /\ got.ppm = c
        /\ (got.tag = "TooHigh") = (cs > 3000 \/ c > 3000)
        /\ (got.tag = "Valid") = ~(cs > 3000 \/ c > 3000)
        /\ (c = 3200 => got = [tag |-> "TooHigh", ppm |-> 3200])
        /\ (c = 500 /\ cs <= 3000 => got = [tag |-> "Valid", ppm |-> 500])

\* TooHigh by the raw value alone: the estimate is within the threshold.
C7_Witness ==
  /\ IsSome(ret.val)
  /\ Unwrap(part.co2_sanity_check) <= 3000
  /\ Unwrap(ret.val).co2_value = [tag |-> "TooHigh", ppm |-> 3200]

\* C8: no call of set_op_val, to_reading or read_to_part panics.
C8_NeverPanics == ~panicked /\ ret.kind /= "Panic"

AnySlotEmpty(p) ==
  p.temperature = None \/ p.co2_value = None \/ p.co2_sanity_check = None

\* C9: to_reading called while a slot is None returns None and leaves every
\* slot as it was, however often it is called.
C9_PartialGivesNone ==
  (last = "to_reading" /\ AnySlotEmpty(pre)) =>
    (ret.kind = "Option" /\ ret.val = None /\ part = pre)

C9_Witness ==
  /\ last = "to_reading" /\ Filled(pre) = 2 /\ pre.co2_sanity_check = None
  /\ ret.val = None

\* C10: a well-formed report with an unknown opcode returns Ok and leaves the
\* accumulator as it was: the accumulator always equals the one fed the same
\* reports without the unknown ones, and the call returns what that one holds.
C10_UnknownIsNoOp ==
  /\ shadow = part
  /\ skipped => (ret.kind = "Ok" /\ ret.val = to_reading(shadow))

C10_Witness ==
  /\ skipped /\ Filled(part) = 2 /\ ret.kind = "Ok" /\ ret.val = None

\* What section 4.3 of the design stores for a report (op, val) of a known
\* field, as the new value of that field's slot.
SlotAfter(p, op, val) ==
  IF op = 66 THEN [p EXCEPT !.temperature = Some(TemperatureInC(val))]
  ELSE IF op = 80 THEN [p EXCEPT !.co2_value = Some(val)]
  ELSE [p EXCEPT !.co2_sanity_check = Some(12811 - val)]

\* C11: an accepted report of a known field replaces that field's slot, filled
\* or not, by the value derived from the report (Celsius, raw ppm, 12811 - raw)
\* and leaves the other two slots as they were.
C11_OnlyOwnSlotReplaced ==
  (/\ last = "read_to_part" /\ EightBytes(inp) /\ inp.buf[5] = 13
   /\ (inp.buf[1] + inp.buf[2] + inp.buf[3]) % 256 = inp.buf[4]
   /\ inp.buf[1] \in {66, 80, 110}) =>
    part = SlotAfter(pre, inp.buf[1], inp.buf[2] * 256 + inp.buf[3])

ShortOrFailed(rd) == rd.kind = "Err" \/ (rd.kind = "Ok" /\ rd.len /= 8)

\* C12: a short read and a failed read make read_to_part return Ok with the
\* accumulator as before; the only errors returned are MissingTerminatorByte
\* and ChecksumInvalid, and after either the caller can call again on the
\* same, unchanged accumulator.
C12_ReadFailuresSwallowed ==
  last = "read_to_part" =>
    /\ ShortOrFailed(inp) => (ret.kind = "Ok" /\ part = pre)
    /\ ret.kind = "Err" =>
         /\ ret.err \in {"MissingTerminatorByte", "ChecksumInvalid"}
         /\ part = pre
         /\ ~panicked

\* A short read whose buffer holds a CO2 report the accumulator is waiting for.
C12_Witness ==
  /\ last = "read_to_part" /\ inp.kind = "Ok" /\ inp.len = 7
  /\ inp.buf[1] = 80 /\ Filled(pre) = 2 /\ pre.co2_value = None
  /\ ret.kind = "Ok" /\ ret.val = None /\ part = pre

BadChecksum(rd) ==
  (rd.buf[1] + rd.buf[2] + rd.buf[3]) % 256 /= rd.buf[4]

\* C17: an 8-byte report with a wrong byte 4 and a wrong checksum is rejected
\* with MissingTerminatorByte; ChecksumInvalid is returned only for reports
\* whose byte 4 is 0x0D.
C17_TerminatorCheckedFirst ==
  (last = "read_to_part" /\ EightBytes(inp)) =>
    /\ (inp.buf[5] /= 13 /\ BadChecksum(inp)) =>
         (ret.kind = "Err" /\ ret.err = "MissingTerminatorByte")
    /\ (ret.kind = "Err" /\ ret.err = "ChecksumInvalid") => inp.buf[5] = 13

C17_Witness ==
  /\ last = "read_to_part" /\ EightBytes(inp)
  /\ inp.buf[5] /= 13 /\ BadChecksum(inp)
  /\ ret.err = "MissingTerminatorByte"

\* C18: a Reading returned by read_to_part carries the temperature of the
\* last accepted temperature report and the ppm of the last accepted CO2
\* report, flagged from that ppm and the last accepted sanity report (its
\* estimate as stored, 12811 - raw modulo 2^16); rejected and short reports
\* contribute nothing.
C18_LatestAcceptedValues ==
  (last = "read_to_part" /\ Outcome(ret) = "Some") =>
    /\ \A op \in {66, 80, 110} : IsSome(accepted[op])
    /\ LET t == Unwrap(accepted[66])
           c == Unwrap(accepted[80])
           s == Unwrap(accepted[110])
           r == Unwrap(ret.val)
       IN  /\ r.temperature = TemperatureInC(t)
           /\ r.co2_value.ppm = c
           /\ (r.co2_value.tag = "TooHigh") =
                ((12811 - s) % 65536 > 3000 \/ c > 3000)
           /\ r.co2_value.tag \in {"TooHigh", "Valid"}

\* Two accepted CO2 reports before the Reading is complete.
C18_Witness ==
  /\ Len(startLog) = 4
  /\ startLog[1] = 80 /\ startLog[2] = 80 /\ startLog[3] = 66
  /\ startLog[4] = 110
  /\ Outcome(ret) = "Some"
  /\ Unwrap(ret.val).co2_value = [tag |-> "Valid", ppm |-> 500]

SetOf(op) == last = "set_op_val" /\ ~panicked /\ Unwrap(applied)[1] = op

\* Five times the distance, in units of 2^-15 degrees, between the stored
\* temperature n / 2^15 and r / 16 - 273.15 = (2048 r - 8950579.2) / 2^15.
CelsiusError5(n, r) == 5 * n - (10240 * r - 44752896)

\* C14 as stated: a temperature report with raw value r stores exactly
\* r / 16 - 273.15 (raw 4397 gives 1.6625 = 54476.8 / 2^15), and a CO2 report
\* stores its raw value.
C14_ExactCelsius ==
  /\ SetOf(66) =>
       CelsiusError5(Unwrap(part.temperature), Unwrap(applied)[2]) = 0
  /\ SetOf(80) => part.co2_value = Some(Unwrap(applied)[2])

\* C14 amended: a temperature report stores r / 16 - 273.15 rounded to f32,
\* within 0.0001 degrees of it (16 / 5 units of 2^-15; raw 4397 gives
\* 54477 / 2^15 = 1.662506103515625), and a CO2 report stores its raw value.
C14_CelsiusWithinF32 ==
  /\ SetOf(66) =>
       LET n == Unwrap(part.temperature)
           r == Unwrap(applied)[2]
       IN  /\ CelsiusError5(n, r) >= 0 - 16
           /\ CelsiusError5(n, r) <= 16
           /\ (r = 4397 => n = 54477)
  /\ SetOf(80) => part.co2_value = Some(Unwrap(applied)[2])

C14_Witness ==
  /\ last = "set_op_val" /\ applied = Some(<<66, 4397>>)
  /\ part.temperature = Some(54477)

\* C15: every Reading read_to_part returns to main is written as one CSV row;
\* the full line is printed iff the Reading differs from prev_reading, which
\* then becomes that Reading; an equal Reading prints '.' and leaves
\* prev_reading as it was.
C15_CliLogsEveryReading ==
  /\ rows = somes
  /\ (last = "read_to_part" /\ Outcome(ret) = "Some") =>
       LET reading == Unwrap(ret.val)
       IN  /\ out \in {"line", "dot"}
           /\ (out = "line") = (reading /= prevBefore)
           /\ out = "line" => prev_reading = reading
           /\ out = "dot" => prev_reading = prevBefore
           /\ lastRow.temperature = reading.temperature
           /\ lastRow.co2_ppm = reading.co2_value.ppm
  /\ (last = "read_to_part" /\ Outcome(ret) /= "Some") =>
       (out = "none" /\ prev_reading = prevBefore)

\* An unchanged Reading after a changed one: the second row, a '.' printed.
C15_Witness ==
  /\ last = "read_to_part" /\ Outcome(ret) = "Some"
  /\ rows = 2 /\ out = "dot"
  /\ prev_reading = Unwrap(ret.val) /\ prevBefore = prev_reading

\* C13: once the transport has delivered a well-formed report of each of the
\* three known opcodes, both driving loops have returned a Reading, whatever
\* else was delivered; while every read has failed, neither has returned.
C13_LoopYieldsReading ==
  /\ delivered = {66, 80, 110} => (pollPc = "returned" /\ loopPc = "returned")
  /\ allFailed => (pollPc = "loop" /\ loopPc = "loop")

\* C16: fed the same transport results, poll and the loop on read_to_part
\* return after the same number of reports, with the same Reading, and a
\* report with a wrong terminator or checksum changes neither accumulator.
C16_LoopsAgree ==
  /\ pollPc = loopPc
  /\ pollPc = "returned" => pollRet = ret.val
  /\ pollPc = "loop" => pollParts = part

====
